---- MODULE Spec2Model ----
(***************************************************************************)
(* Model of package fsgc (src/fsgc.go): a garbage collector that removes   *)
(* expired session_* files from a directory, driven by a time.Ticker and   *)
(* a goroutine, with all fields of GC guarded by one sync.Mutex.           *)
(*                                                                         *)
(* Threads are the callers of the exported methods and the goroutines      *)
(* launched by Start.  A call takes gc.mu and runs its body in one step    *)
(* and gives the lock back in a second one (the deferred Unlock); the      *)
(* sweep of Collect goes entry by entry in between, so that other threads, *)
(* the timers and the filesystem interleave with it.  The goroutine reads  *)
(* gc.ticker on its own, outside the lock.  Time is counted in hours.      *)
(*                                                                         *)
(* The channel of a time.Ticker is the one time.NewTicker makes, of        *)
(* capacity 1, written by the runtime without blocking.  time.NewTicker    *)
(* panics on an interval that is not positive; the panic unwinds Start     *)
(* (the deferred Unlock runs) and, not recovered, ends the process.        *)
(***************************************************************************)
EXTENDS Integers, Sequences, FiniteSets, TLC

VARIABLES
    mu,        \* gc.mu: the thread holding the mutex, or NoThread
    dir,       \* gc.dir
    maxAge,    \* gc.maxAge
    interval,  \* gc.interval
    ticker,    \* gc.ticker: 0 is nil, k > 0 points to tickers[k]
    tickers,   \* the heap of time.Ticker values made by time.NewTicker
    pc,        \* per thread: where it is in its code
    rv,        \* per thread: the return path taken by the call in progress
    tk,        \* per goroutine: the ticker whose channel it ranges over
    fis,       \* per thread: Collect's local fis (the listing of Readdir)
    todo,      \* per thread: names of fis the loop has not yet visited
    snow,      \* per thread: Collect's local now
    fs,        \* the directory on disk: name -> FileInfo of present entries
    dirState,  \* what the OS allows on the directory
    now,       \* the wall clock
    disturbed, \* history: something outside the collector touched the
               \* directory since the sweep in progress listed it
    ext        \* history: how often the environment has touched it at all

vars == <<mu, dir, maxAge, interval, ticker, tickers, pc, rv, tk,
          fis, todo, snow, fs, dirState, now, disturbed, ext>>

(***************************************************************************)
(* Bounds of the model.                                                    *)
(***************************************************************************)
NumCallers == 2     \* concurrent callers of the exported methods
MaxStarts == 2      \* tickers (and goroutines) ever created by Start
MaxNow == 2         \* hours the clock may advance
MaxExt == 1         \* times the environment touches the directory

(***************************************************************************)
(* Constants of the program.                                               *)
(***************************************************************************)
Hour == 1
DefaultMaxAge == 7 * 24 * Hour
DefaultInterval == 1 * Hour
Prefix == "session_"
DirPath == "/path/to/sessions/"

(***************************************************************************)
(* Inputs.                                                                 *)
(***************************************************************************)
MaxAges == {Hour, DefaultMaxAge}
Intervals == {0, DefaultInterval, 2 * Hour}
ShortIntervals == {0, DefaultInterval}
Names == {"session_1", "session_2", "session_d", "sess_3"}
DirNames == {"session_d"}
OldTimes == {0 - (DefaultMaxAge + Hour), 0 - DefaultMaxAge, 0}
DirStates == {"ok", "noopen", "nolist", "noremove"}

Callers == {<<"caller", i>> : i \in 1..NumCallers}
Tasks == {<<"task", k>> : k \in 1..MaxStarts}
Threads == Callers \cup Tasks
NoThread == <<"none", 0>>
Task(k) == <<"task", k>>

FileInfo(n, t) == [isDir |-> n \in DirNames, modTime |-> t]
EmptyDir == [n \in {} |-> FileInfo(n, 0)]

(***************************************************************************)
(* Pure helpers.                                                           *)
(***************************************************************************)
\* strings.HasPrefix
HasPrefix(s, p) == Len(s) >= Len(p) /\ SubSeq(s, 1, Len(p)) = p

\* Skipped with the test of the prefix inverted
SkippedInverted(name, fi) == fi.isDir \/ HasPrefix(name, Prefix)

\* line 133: the entries the loop passes over
Skipped(name, fi) == fi.isDir \/ ~HasPrefix(name, Prefix)

\* Expired with >= for >
ExpiredOrEqual(fi, nw, age) == nw - fi.modTime >= age

\* line 136: now.Sub(fi.ModTime()) > gc.maxAge
Expired(fi, nw, age) == nw - fi.modTime > age

\* os.Remove(filepath.Join(gc.dir, name)) with its error ignored: the entry
\* goes only if it is still there and the directory allows removal
Remove(d, name, st) ==
    IF name \in DOMAIN d /\ st = "ok"
    THEN [n \in DOMAIN d \ {name} |-> d[n]]
    ELSE d

\* what time.NewTicker gives for an interval that is not positive
NonPositive == [panic |-> "non-positive interval for NewTicker"]
Panics(t) == "panic" \in DOMAIN t

\* NewTicker whose first tick is due at once
NewTickerImmediate(d, t) ==
    IF d <= 0 THEN NonPositive
    ELSE [active |-> TRUE, period |-> d, created |-> t, next |-> t,
          buf |-> 0, fired |-> FALSE]

\* time.NewTicker(d) at time t: a panic if d <= 0, else a channel of
\* capacity 1 and a timer of the runtime that is first due one period
\* after creation
NewTicker(d, t) ==
    IF d <= 0 THEN NonPositive
    ELSE [active |-> TRUE, period |-> d, created |-> t, next |-> t + d,
          buf |-> 0, fired |-> FALSE]

\* SendTick on a channel that holds every tick until it is received
SendTickQueued(t) ==
    [t EXCEPT !.buf = @ + 1, !.fired = TRUE, !.next = @ + t.period]

\* the runtime's send on the channel of ticker t: it does not block, a tick
\* that finds the channel full is dropped; the timer is due again one
\* period later
SendTick(t) ==
    [t EXCEPT !.buf = 1, !.fired = TRUE, !.next = @ + t.period]

\* t.Stop(): the runtime's timer is deleted, so nothing is scheduled any
\* more; the channel is neither closed nor drained
StopTicker(t) ==
    [t EXCEPT !.active = FALSE, !.period = 0, !.created = 0, !.next = 0]

\* Lock that does not wait for the holder
LockNoWait(th) == mu' = th

\* gc.mu.Lock() and the deferred gc.mu.Unlock()
Lock(th) == mu = NoThread /\ mu' = th
Unlock(th) == mu' = NoThread

\* a panic (a nil dereference, time.NewTicker on an interval that is not
\* positive) ends the process
Crashed == \E th \in Threads : pc[th] = "panic"
Idle(th) == IF th \in Callers THEN "idle" ELSE "wait"
\* some thread is between the listing of a sweep and its return
Sweeping ==
    \E th \in Threads : pc[th] = "loop" \/ (pc[th] = "ret" /\ rv[th] = "nil")

(***************************************************************************)
(* Initial states.                                                         *)
(***************************************************************************)
\* New(dir)
New ==
    /\ mu = NoThread
    /\ dir = DirPath
    /\ maxAge = DefaultMaxAge
    /\ interval = DefaultInterval
    /\ ticker = 0
    /\ tickers = <<>>
    /\ pc = [th \in Threads |-> IF th \in Callers THEN "idle" ELSE "none"]
    /\ rv = [th \in Threads |-> "none"]
    /\ tk = [g \in Tasks |-> 0]
    /\ fis = [th \in Threads |-> EmptyDir]
    /\ todo = [th \in Threads |-> {}]
    /\ snow = [th \in Threads |-> 0]
    /\ now = 0
    /\ disturbed = FALSE
    /\ ext = 0

\* the directory of TestGC: session_1 expired, session_2 fresh
TestDir ==
    [n \in {"session_1", "session_2"} |->
        FileInfo(n, IF n = "session_2" THEN 0 ELSE 0 - (DefaultMaxAge + Hour))]

Init ==
    /\ New
    /\ fs = TestDir
    /\ dirState = "ok"

(***************************************************************************)
(* MaxAge, Interval, Start and Stop.  Each takes gc.mu, runs its few       *)
(* assignments under it and reaches its return, still holding the lock;    *)
(* Return below is the deferred Unlock.                                    *)
(***************************************************************************)
\* lines 70-75
MaxAge(c, dur) ==
    /\ ~Crashed /\ pc[c] = "idle"
    /\ Lock(c)
    /\ maxAge' = dur
    /\ pc' = [pc EXCEPT ![c] = "ret"]
    /\ rv' = [rv EXCEPT ![c] = "MaxAge"]
    /\ UNCHANGED <<dir, interval, ticker, tickers, tk,
                   fis, todo, snow, fs, dirState, now, disturbed, ext>>

\* Interval that also resets the period of a running ticker
IntervalResets(c, dur) ==
    /\ ~Crashed /\ pc[c] = "idle"
    /\ Lock(c)
    /\ interval' = dur
    /\ tickers' = IF ticker = 0 THEN tickers
                  ELSE [tickers EXCEPT ![ticker].period = dur]
    /\ pc' = [pc EXCEPT ![c] = "ret"]
    /\ rv' = [rv EXCEPT ![c] = "Interval"]
    /\ UNCHANGED <<dir, maxAge, ticker, tk,
                   fis, todo, snow, fs, dirState, now, disturbed, ext>>

\* lines 78-83
Interval(c, dur) ==
    /\ ~Crashed /\ pc[c] = "idle"
    /\ Lock(c)
    /\ interval' = dur
    /\ pc' = [pc EXCEPT ![c] = "ret"]
    /\ rv' = [rv EXCEPT ![c] = "Interval"]
    /\ UNCHANGED <<dir, maxAge, ticker, tickers, tk,
                   fis, todo, snow, fs, dirState, now, disturbed, ext>>

\* Start without the test of line 94
StartNoCheck(c) ==
    /\ ~Crashed /\ pc[c] = "idle"
    /\ Len(tickers) < MaxStarts
    /\ IF Panics(NewTicker(interval, now))
       THEN /\ mu = NoThread /\ UNCHANGED mu
            /\ rv' = [rv EXCEPT ![c] = "NewTicker"]
            /\ pc' = [pc EXCEPT ![c] = "panic"]
            /\ UNCHANGED <<ticker, tickers>>
       ELSE /\ Lock(c)
            /\ tickers' = Append(tickers, NewTicker(interval, now))
            /\ ticker' = Len(tickers) + 1
            /\ rv' = [rv EXCEPT ![c] = "started"]
            /\ pc' = [pc EXCEPT ![c] = "ret",
                                ![Task(Len(tickers) + 1)] = "go"]
    /\ UNCHANGED <<dir, maxAge, interval, tk,
                   fis, todo, snow, fs, dirState, now, disturbed, ext>>

\* lines 91-104: return if already started, else make the ticker and
\* launch the goroutine (which has not run yet).  If time.NewTicker panics
\* (line 97) gc.ticker stays nil, no goroutine is launched, the deferred
\* Unlock gives the lock back and Start does not return.  A Start that
\* would need one more ticker than the model holds is not taken.
Start(c) ==
    /\ ~Crashed /\ pc[c] = "idle"
    /\ ticker # 0 \/ Len(tickers) < MaxStarts
    /\ IF ticker # 0
       THEN /\ Lock(c)
            /\ rv' = [rv EXCEPT ![c] = "already started"]
            /\ pc' = [pc EXCEPT ![c] = "ret"]
            /\ UNCHANGED <<ticker, tickers>>
       ELSE IF Panics(NewTicker(interval, now))
       THEN /\ mu = NoThread /\ UNCHANGED mu
            /\ rv' = [rv EXCEPT ![c] = "NewTicker"]
            /\ pc' = [pc EXCEPT ![c] = "panic"]
            /\ UNCHANGED <<ticker, tickers>>
       ELSE /\ Lock(c)
            /\ tickers' = Append(tickers, NewTicker(interval, now))
            /\ ticker' = Len(tickers) + 1
            /\ rv' = [rv EXCEPT ![c] = "started"]
            /\ pc' = [pc EXCEPT ![c] = "ret",
                                ![Task(Len(tickers) + 1)] = "go"]
    /\ UNCHANGED <<dir, maxAge, interval, tk,
                   fis, todo, snow, fs, dirState, now, disturbed, ext>>

\* Stop without the test of line 111: gc.ticker.Stop() on a nil ticker
StopNoCheck(c) ==
    /\ ~Crashed /\ pc[c] = "idle"
    /\ Lock(c)
    /\ IF ticker = 0
       THEN /\ pc' = [pc EXCEPT ![c] = "panic"]
            /\ UNCHANGED <<ticker, tickers, rv>>
       ELSE /\ tickers' = [tickers EXCEPT ![ticker] = StopTicker(@)]
            /\ ticker' = 0
            /\ rv' = [rv EXCEPT ![c] = "stopped"]
            /\ pc' = [pc EXCEPT ![c] = "ret"]
    /\ UNCHANGED <<dir, maxAge, interval, tk,
                   fis, todo, snow, fs, dirState, now, disturbed, ext>>

\* lines 108-116: return if not started, else ticker.Stop() and forget it
Stop(c) ==
    /\ ~Crashed /\ pc[c] = "idle"
    /\ Lock(c)
    /\ IF ticker = 0
       THEN /\ rv' = [rv EXCEPT ![c] = "not started"]
            /\ UNCHANGED <<ticker, tickers>>
       ELSE /\ tickers' = [tickers EXCEPT ![ticker] = StopTicker(@)]
            /\ ticker' = 0
            /\ rv' = [rv EXCEPT ![c] = "stopped"]
    /\ pc' = [pc EXCEPT ![c] = "ret"]
    /\ UNCHANGED <<dir, maxAge, interval, tk,
                   fis, todo, snow, fs, dirState, now, disturbed, ext>>

(***************************************************************************)
(* The goroutine of Start: for _ = range gc.ticker.C { gc.Collect() }      *)
(***************************************************************************)
\* line 99, evaluated once and without the lock: reads gc.ticker as it is
\* when the goroutine first runs; a nil ticker is a nil dereference
TaskRange(g) ==
    /\ ~Crashed /\ pc[g] = "go"
    /\ IF ticker = 0
       THEN pc' = [pc EXCEPT ![g] = "panic"] /\ UNCHANGED tk
       ELSE pc' = [pc EXCEPT ![g] = "wait"] /\ tk' = [tk EXCEPT ![g] = ticker]
    /\ UNCHANGED <<mu, dir, maxAge, interval, ticker, tickers, rv,
                   fis, todo, snow, fs, dirState, now, disturbed, ext>>

\* the goroutine that takes the tick off the channel and calls nothing
TaskRecvNoCall(g) ==
    /\ ~Crashed /\ pc[g] = "wait"
    /\ tickers[tk[g]].buf > 0
    /\ tickers' = [tickers EXCEPT ![tk[g]].buf = 0]
    /\ UNCHANGED <<mu, dir, maxAge, interval, ticker, pc, rv, tk,
                   fis, todo, snow, fs, dirState, now, disturbed, ext>>

\* line 99: receive one tick from the channel; line 100 is then due
TaskRecv(g) ==
    /\ ~Crashed /\ pc[g] = "wait"
    /\ tickers[tk[g]].buf > 0
    /\ tickers' = [tickers EXCEPT ![tk[g]].buf = 0]
    /\ pc' = [pc EXCEPT ![g] = "call"]
    /\ UNCHANGED <<mu, dir, maxAge, interval, ticker, rv, tk,
                   fis, todo, snow, fs, dirState, now, disturbed, ext>>

(***************************************************************************)
(* Collect, called by a caller or by a goroutine.                          *)
(***************************************************************************)
\* Collect that gives up the schedule when the directory fails
CollectStopsOnErr(th) ==
    /\ ~Crashed
    /\ pc[th] = (IF th \in Callers THEN "idle" ELSE "call")
    /\ Lock(th)
    /\ IF dirState \in {"noopen", "nolist"}
       THEN /\ rv' = [rv EXCEPT ![th] = "err"]
            /\ pc' = [pc EXCEPT ![th] = "ret"]
            /\ ticker' = 0
            /\ UNCHANGED <<fis, todo, snow, disturbed>>
       ELSE /\ fis' = [fis EXCEPT ![th] = fs]
            /\ todo' = [todo EXCEPT ![th] = DOMAIN fs]
            /\ snow' = [snow EXCEPT ![th] = now]
            /\ disturbed' = FALSE
            /\ pc' = [pc EXCEPT ![th] = "loop"]
            /\ UNCHANGED <<rv, ticker>>
    /\ UNCHANGED <<dir, maxAge, interval, tickers, tk,
                   fs, dirState, now, ext>>

\* Collect without the test of line 128: the error of Readdir is dropped
CollectIgnoreReaddirErr(th) ==
    /\ ~Crashed
    /\ pc[th] = (IF th \in Callers THEN "idle" ELSE "call")
    /\ Lock(th)
    /\ IF dirState = "noopen"
       THEN /\ rv' = [rv EXCEPT ![th] = "err"]
            /\ pc' = [pc EXCEPT ![th] = "ret"]
            /\ UNCHANGED <<fis, todo, snow, disturbed>>
       ELSE /\ fis' = [fis EXCEPT ![th] = fs]
            /\ todo' = [todo EXCEPT ![th] = DOMAIN fs]
            /\ snow' = [snow EXCEPT ![th] = now]
            /\ disturbed' = FALSE
            /\ pc' = [pc EXCEPT ![th] = "loop"]
            /\ UNCHANGED rv
    /\ UNCHANGED <<dir, maxAge, interval, ticker, tickers, tk,
                   fs, dirState, now, ext>>

\* lines 119-131: gc.mu.Lock(), os.Open, f.Readdir(0), time.Now()
Collect(th) ==
    /\ ~Crashed
    /\ pc[th] = (IF th \in Callers THEN "idle" ELSE "call")
    /\ Lock(th)
    /\ IF dirState \in {"noopen", "nolist"}
       THEN /\ rv' = [rv EXCEPT ![th] = "err"]
            /\ pc' = [pc EXCEPT ![th] = "ret"]
            /\ UNCHANGED <<fis, todo, snow, disturbed, ext>>
       ELSE /\ fis' = [fis EXCEPT ![th] = fs]
            /\ todo' = [todo EXCEPT ![th] = DOMAIN fs]
            /\ snow' = [snow EXCEPT ![th] = now]
            /\ disturbed' = FALSE
            /\ pc' = [pc EXCEPT ![th] = "loop"]
            /\ UNCHANGED rv
    /\ UNCHANGED <<dir, maxAge, interval, ticker, tickers, tk,
                   fs, dirState, now, ext>>

\* CollectEntry that reads the clock anew for each entry
CollectEntryLateNow(th, name) ==
    /\ ~Crashed /\ pc[th] = "loop"
    /\ name \in todo[th]
    /\ todo' = [todo EXCEPT ![th] = @ \ {name}]
    /\ IF Skipped(name, fis[th][name])
       THEN UNCHANGED fs
       ELSE IF Expired(fis[th][name], now, maxAge)
            THEN fs' = Remove(fs, name, dirState)
            ELSE UNCHANGED fs
    /\ UNCHANGED <<mu, dir, maxAge, interval, ticker, tickers, pc, rv, tk,
                   fis, snow, dirState, now, disturbed, ext>>

\* CollectEntry that returns the error of os.Remove
CollectEntryAborts(th, name) ==
    /\ ~Crashed /\ pc[th] = "loop"
    /\ name \in todo[th]
    /\ todo' = [todo EXCEPT ![th] = @ \ {name}]
    /\ IF ~Skipped(name, fis[th][name])
          /\ Expired(fis[th][name], snow[th], maxAge)
       THEN /\ fs' = Remove(fs, name, dirState)
            /\ IF name \in DOMAIN fs /\ dirState = "ok"
               THEN UNCHANGED <<pc, rv>>
               ELSE /\ pc' = [pc EXCEPT ![th] = "ret"]
                    /\ rv' = [rv EXCEPT ![th] = "err"]
       ELSE UNCHANGED <<fs, pc, rv>>
    /\ UNCHANGED <<mu, dir, maxAge, interval, ticker, tickers, tk,
                   fis, snow, dirState, now, disturbed, ext>>

\* lines 132-141, one entry of fis
CollectEntry(th, name) ==
    /\ ~Crashed /\ pc[th] = "loop"
    /\ name \in todo[th]
    /\ todo' = [todo EXCEPT ![th] = @ \ {name}]
    /\ IF Skipped(name, fis[th][name])
       THEN UNCHANGED fs
       ELSE IF Expired(fis[th][name], snow[th], maxAge)
            THEN fs' = Remove(fs, name, dirState)
            ELSE UNCHANGED fs
    /\ UNCHANGED <<mu, dir, maxAge, interval, ticker, tickers, pc, rv, tk,
                   fis, snow, dirState, now, disturbed, ext>>

\* line 142
CollectDone(th) ==
    /\ ~Crashed /\ pc[th] = "loop"
    /\ todo[th] = {}
    /\ rv' = [rv EXCEPT ![th] = "nil"]
    /\ pc' = [pc EXCEPT ![th] = "ret"]
    /\ UNCHANGED <<mu, dir, maxAge, interval, ticker, tickers, tk,
                   fis, todo, snow, fs, dirState, now, disturbed, ext>>

\* Return after which a goroutine whose Collect failed leaves its loop
ReturnEndsOnErr(th) ==
    /\ ~Crashed /\ pc[th] = "ret"
    /\ Unlock(th)
    /\ pc' = [pc EXCEPT ![th] = IF th \in Tasks /\ rv[th] = "err"
                                THEN "done" ELSE Idle(th)]
    /\ rv' = [rv EXCEPT ![th] = "none"]
    /\ fis' = [fis EXCEPT ![th] = EmptyDir]
    /\ todo' = [todo EXCEPT ![th] = {}]
    /\ snow' = [snow EXCEPT ![th] = 0]
    /\ UNCHANGED <<dir, maxAge, interval, ticker, tickers, tk,
                   fs, dirState, now, disturbed, ext>>

\* the return of any method: the deferred Unlock runs; a goroutine goes
\* back to its range loop with the error ignored
Return(th) ==
    /\ ~Crashed /\ pc[th] = "ret"
    /\ Unlock(th)
    /\ pc' = [pc EXCEPT ![th] = Idle(th)]
    /\ rv' = [rv EXCEPT ![th] = "none"]
    /\ fis' = [fis EXCEPT ![th] = EmptyDir]
    /\ todo' = [todo EXCEPT ![th] = {}]
    /\ snow' = [snow EXCEPT ![th] = 0]
    /\ UNCHANGED <<dir, maxAge, interval, ticker, tickers, tk,
                   fs, dirState, now, disturbed, ext>>

(***************************************************************************)
(* The environment: the clock, the runtime's timers, the filesystem.       *)
(***************************************************************************)
Elapse ==
    /\ ~Crashed /\ now < MaxNow
    /\ now' = now + 1
    /\ UNCHANGED <<mu, dir, maxAge, interval, ticker, tickers, pc, rv, tk,
                   fis, todo, snow, fs, dirState, disturbed, ext>>

\* the runtime sends a tick on a running ticker whose time has come
TickFire(t) ==
    /\ ~Crashed
    /\ t \in DOMAIN tickers
    /\ tickers[t].active
    /\ now >= tickers[t].next
    /\ tickers' = [tickers EXCEPT ![t] = SendTick(@)]
    /\ UNCHANGED <<mu, dir, maxAge, interval, ticker, pc, rv, tk,
                   fis, todo, snow, fs, dirState, now, disturbed, ext>>

\* the directory is removed, replaced, chmod-ed or restored
EnvSetDir(st) ==
    /\ ~Crashed
    /\ ext < MaxExt
    /\ ext' = ext + 1
    /\ st # dirState
    /\ dirState' = st
    /\ disturbed' = (disturbed \/ Sweeping)
    /\ UNCHANGED <<mu, dir, maxAge, interval, ticker, tickers, pc, rv, tk,
                   fis, todo, snow, fs, now>>

\* the session store writes a file (or something makes the subdirectory)
ExtWrite(name) ==
    /\ ~Crashed
    /\ ext < MaxExt
    /\ ext' = ext + 1
    /\ dirState = "ok"
    /\ fs' = [n \in DOMAIN fs \cup {name} |->
                 IF n = name THEN FileInfo(n, now) ELSE fs[n]]
    /\ fs' # fs
    /\ disturbed' = (disturbed \/ Sweeping)
    /\ UNCHANGED <<mu, dir, maxAge, interval, ticker, tickers, pc, rv, tk,
                   fis, todo, snow, dirState, now>>

\* another process removes an entry
ExtRemove(name) ==
    /\ ~Crashed
    /\ ext < MaxExt
    /\ ext' = ext + 1
    /\ dirState = "ok"
    /\ name \in DOMAIN fs
    /\ fs' = Remove(fs, name, dirState)
    /\ disturbed' = (disturbed \/ Sweeping)
    /\ UNCHANGED <<mu, dir, maxAge, interval, ticker, tickers, pc, rv, tk,
                   fis, todo, snow, dirState, now>>

(***************************************************************************)
(* The collector with its callers, goroutines, timers and clock.           *)
(***************************************************************************)
Next ==
    \/ \E c \in Callers : \E d \in MaxAges : MaxAge(c, d)
    \/ \E c \in Callers : \E d \in ShortIntervals : Interval(c, d)
    \/ \E c \in Callers : Start(c)
    \/ \E c \in Callers : Stop(c)
    \/ \E g \in Tasks : TaskRange(g)
    \/ \E g \in Tasks : TaskRecv(g)
    \/ \E th \in Threads : Collect(th)
    \/ \E th \in Threads : \E n \in Names : CollectEntry(th, n)
    \/ \E th \in Threads : CollectDone(th)
    \/ \E th \in Threads : Return(th)
    \/ Elapse
    \/ \E t \in 1..MaxStarts : TickFire(t)

Spec == Init /\ [][Next]_vars

(***************************************************************************)
(* The same collector under the scheduling the Go runtime gives it: a      *)
(* goroutine that can run is eventually run, a call that has reached its   *)
(* return does return.                                                     *)
(***************************************************************************)
TaskNext(g) ==
    \/ TaskRange(g)
    \/ TaskRecv(g)
    \/ Collect(g)
    \/ \E n \in Names : CollectEntry(g, n)
    \/ CollectDone(g)
    \/ Return(g)

CallerNext(c) ==
    \/ \E n \in Names : CollectEntry(c, n)
    \/ CollectDone(c)
    \/ Return(c)

Fairness ==
    /\ \A g \in Tasks : WF_vars(TaskNext(g))
    /\ \A c \in Callers : WF_vars(CallerNext(c))

FairSpec == Init /\ [][Next]_vars /\ Fairness

(***************************************************************************)
(* The sweep against a directory that other processes use at the same      *)
(* time: any directory over Names, a collector that is stopped or was      *)
(* started before, callers that set the age and call Collect, and an       *)
(* environment that writes and removes entries and changes what the        *)
(* directory allows.  The clock stands still at 0 (the ages are in the     *)
(* modification times) and the goroutine of a started collector receives   *)
(* no tick.                                                                *)
(***************************************************************************)
Dirs ==
    UNION {[S -> OldTimes] : S \in SUBSET Names}

\* New(dir).Start(), with the goroutine waiting in its range loop
Started ==
    /\ mu = NoThread
    /\ dir = DirPath
    /\ maxAge = DefaultMaxAge
    /\ interval = DefaultInterval
    /\ ticker = 1
    /\ tickers = <<NewTicker(DefaultInterval, 0)>>
    /\ pc = [th \in Threads |->
                IF th \in Callers THEN "idle"
                ELSE IF th = Task(1) THEN "wait" ELSE "none"]
    /\ rv = [th \in Threads |-> "none"]
    /\ tk = [g \in Tasks |-> IF g = Task(1) THEN 1 ELSE 0]
    /\ fis = [th \in Threads |-> EmptyDir]
    /\ todo = [th \in Threads |-> {}]
    /\ snow = [th \in Threads |-> 0]
    /\ now = 0
    /\ disturbed = FALSE
    /\ ext = 0

SweepInit ==
    /\ New \/ Started
    /\ \E d \in Dirs : fs = [n \in DOMAIN d |-> FileInfo(n, d[n])]
    /\ dirState \in DirStates

SweepNext ==
    \/ \E c \in Callers : \E d \in MaxAges : MaxAge(c, d)
    \/ \E c \in Callers : Collect(c)
    \/ \E c \in Callers : \E n \in Names : CollectEntry(c, n)
    \/ \E c \in Callers : CollectDone(c)
    \/ \E c \in Callers : Return(c)
    \/ \E st \in DirStates : EnvSetDir(st)
    \/ \E n \in Names : ExtWrite(n)
    \/ \E n \in Names : ExtRemove(n)

SweepSpec == SweepInit /\ [][SweepNext]_vars

(***************************************************************************)
(* The collector left to its schedule, as in TestGC: callers set the       *)
(* interval and start and stop the collector, nobody calls Collect or      *)
(* MaxAge, every sweep is one the goroutine makes on a tick.  Time goes on *)
(* (up to the horizon MaxNow) and the runtime sends the ticks that are     *)
(* due.                                                                    *)
(***************************************************************************)
AutoNext ==
    \/ \E c \in Callers : \E d \in Intervals : Interval(c, d)
    \/ \E c \in Callers : Start(c)
    \/ \E c \in Callers : Stop(c)
    \/ \E c \in Callers : Return(c)
    \/ \E g \in Tasks : TaskNext(g)
    \/ Elapse
    \/ \E t \in 1..MaxStarts : TickFire(t)

TimeGoesOn ==
    /\ WF_vars(Elapse)
    /\ \A t \in 1..MaxStarts : WF_vars(TickFire(t))

\* a sync.Mutex hands the lock to a goroutine that has waited for it (its
\* starvation mode), so a goroutine at gc.Collect() is not overtaken for ever
LockFairness ==
    \A g \in Tasks : SF_vars(Collect(g))

AutoSpec ==
    Init /\ [][AutoNext]_vars /\ Fairness /\ LockFairness /\ TimeGoesOn

(***************************************************************************)
(* The collector left to its schedule on a directory that comes and goes:  *)
(* the directory of TestGC in any of its states, callers that start the    *)
(* collector and leave it running, and an environment that removes,        *)
(* protects or restores the directory.                                     *)
(***************************************************************************)
ErrInit ==
    /\ New
    /\ fs = TestDir
    /\ dirState \in DirStates

ErrNext ==
    \/ \E c \in Callers : Start(c)
    \/ \E c \in Callers : Return(c)
    \/ \E g \in Tasks : TaskNext(g)
    \/ Elapse
    \/ \E t \in 1..MaxStarts : TickFire(t)
    \/ \E st \in DirStates : EnvSetDir(st)

ErrSpec == ErrInit /\ [][ErrNext]_vars /\ Fairness /\ TimeGoesOn

(***************************************************************************)
(* Sweeps that outlast the interval: a collector that was started one      *)
(* interval ago, so that its first tick is due now and further ticks come  *)
(* every hour, its goroutine waiting for them, and callers that call       *)
(* Collect and Stop.  A sweep may take any time: the clock and the ticker  *)
(* go on while it is in its loop.                                          *)
(***************************************************************************)
StartedBefore ==
    /\ mu = NoThread
    /\ dir = DirPath
    /\ maxAge = DefaultMaxAge
    /\ interval = DefaultInterval
    /\ ticker = 1
    /\ tickers = <<NewTicker(DefaultInterval, 0 - DefaultInterval)>>
    /\ pc = [th \in Threads |->
                IF th \in Callers THEN "idle"
                ELSE IF th = Task(1) THEN "wait" ELSE "none"]
    /\ rv = [th \in Threads |-> "none"]
    /\ tk = [g \in Tasks |-> IF g = Task(1) THEN 1 ELSE 0]
    /\ fis = [th \in Threads |-> EmptyDir]
    /\ todo = [th \in Threads |-> {}]
    /\ snow = [th \in Threads |-> 0]
    /\ now = 0
    /\ disturbed = FALSE
    /\ ext = 0

SlowInit ==
    /\ StartedBefore
    /\ fs = TestDir
    /\ dirState = "ok"

SlowNext ==
    \/ \E c \in Callers : Stop(c)
    \/ \E g \in Tasks : TaskRecv(g)
    \/ \E th \in Threads : Collect(th)
    \/ \E th \in Threads : \E n \in Names : CollectEntry(th, n)
    \/ \E th \in Threads : CollectDone(th)
    \/ \E th \in Threads : Return(th)
    \/ Elapse
    \/ \E t \in 1..MaxStarts : TickFire(t)

SlowSpec == SlowInit /\ [][SlowNext]_vars

(***************************************************************************)
(* The whole collector, as in Next, on a directory that holds the expired  *)
(* file of TestGC and can be swept, or not opened, or not listed, so that  *)
(* the sweeps of callers and goroutines succeed or fail.                   *)
(***************************************************************************)
HandleInit ==
    /\ New
    /\ fs = [n \in {"session_1"} |-> TestDir[n]]
    /\ dirState \in {"ok", "noopen", "nolist"}

HandleSpec == HandleInit /\ [][Next]_vars

(***************************************************************************)
(* Properties.  They speak of the entries by what the specification says   *)
(* of them, not by the operators of the sweep above.                       *)
(***************************************************************************)
\* the names of Names that start with session_
SessionNamed == {"session_1", "session_2", "session_d"}

\* a regular file named session_... whose age exceeds the threshold
ShouldGo(n, fi, nw, age) ==
    n \in SessionNamed /\ ~fi.isDir /\ nw - fi.modTime > age

\* thread th has finished a sweep and is about to return nil
SweepEnded(th) == pc[th] = "ret" /\ rv[th] = "nil"

\* the step is the call of Start, or of Stop, by caller c
StartStep(c) ==
    pc[c] = "idle" /\ pc'[c] = "ret" /\ rv'[c] \in {"started", "already started"}
StopStep(c) ==
    pc[c] = "idle" /\ pc'[c] = "ret" /\ rv'[c] \in {"stopped", "not started"}

ActiveTickers == {t \in DOMAIN tickers : tickers[t].active}
LiveTasks == {g \in Tasks : pc[g] \notin {"none", "panic"}}
AutoSweeping(g) == pc[g] \in {"call", "loop", "ret"}

\* C1, as claimed: after a sweep that nothing outside disturbed, every
\* listed regular session_ file whose age at the sweep's now exceeded maxAge
\* no longer exists.
C1_ExpiredGone ==
    \A th \in Threads :
        SweepEnded(th) /\ ~disturbed =>
            \A n \in DOMAIN fis[th] :
                ShouldGo(n, fis[th][n], snow[th], maxAge) => n \notin DOMAIN fs

\* C1, amended: the same, where the directory lets entries be removed (the
\* error of os.Remove is ignored, so a refused removal leaves the file).
C1_ExpiredGoneWhereRemovable ==
    \A th \in Threads :
        SweepEnded(th) /\ ~disturbed /\ dirState = "ok" =>
            \A n \in DOMAIN fis[th] :
                ShouldGo(n, fis[th][n], snow[th], maxAge) => n \notin DOMAIN fs

\* a sweep with the default maxAge has removed a session file older than
\* 7 days from a directory that allows it
C1_Witness ==
    \E th \in Threads :
        /\ SweepEnded(th) /\ ~disturbed /\ dirState = "ok"
        /\ maxAge = DefaultMaxAge
        /\ \E n \in DOMAIN fis[th] :
              /\ ShouldGo(n, fis[th][n], snow[th], 7 * 24 * Hour)
              /\ n \notin DOMAIN fs

\* whatever leaves the directory in a step of the collector was listed by
\* the sweep as a regular session_ file older than maxAge
C2_StepKeeps ==
    \A n \in DOMAIN fs :
        n \notin DOMAIN fs' =>
            \/ ext' # ext
            \/ \E th \in Threads :
                  /\ pc[th] = "loop" /\ n \in todo[th] /\ n \notin todo'[th]
                  /\ ShouldGo(n, fis[th][n], snow[th], maxAge)
\* at the end of an undisturbed sweep every other listed entry is there
C2_EndKeeps ==
    \A th \in Threads :
        SweepEnded(th) /\ ~disturbed =>
            \A n \in DOMAIN fis[th] :
                ~ShouldGo(n, fis[th][n], snow[th], maxAge) =>
                    n \in DOMAIN fs /\ fs[n] = fis[th][n]
\* C2: a sweep never removes an entry that is not eligible: a subdirectory
\* (whatever its name), an entry whose name does not start with session_,
\* or one whose age is at most maxAge (age = maxAge is kept) is still there
\* after the sweep.
C2_NotEligibleKept == [](C2_EndKeeps) /\ [][C2_StepKeeps]_vars

\* a sweep that removed something has kept a subdirectory named session_d,
\* an old file of another name, and a session file of age exactly maxAge
C2_Witness ==
    \E th \in Threads :
        /\ SweepEnded(th) /\ ~disturbed
        /\ DOMAIN fis[th] # DOMAIN fs
        /\ "session_d" \in DOMAIN fs /\ fs["session_d"].isDir
        /\ "sess_3" \in DOMAIN fs /\ snow[th] - fs["sess_3"].modTime > maxAge
        /\ \E n \in {"session_1", "session_2"} :
              n \in DOMAIN fs /\ snow[th] - fs[n].modTime = maxAge

\* the steps of Collect: the error return, the start of the loop, its end
C3_Step ==
    \A th \in Threads :
        /\ (pc[th] \in {"idle", "call"} /\ pc'[th] = "ret" /\ rv'[th] = "err")
              => /\ dirState \in {"noopen", "nolist"}
                 /\ UNCHANGED <<fs, maxAge, interval, ticker, tickers>>
        /\ (pc[th] \in {"idle", "call"} /\ pc'[th] = "loop")
              => dirState \notin {"noopen", "nolist"}
        /\ (pc[th] = "loop" /\ pc'[th] = "ret") => rv'[th] = "nil"
        /\ (pc[th] = "ret" /\ rv[th] = "err")
              => /\ UNCHANGED <<maxAge, interval, ticker, tickers>>
                 /\ fs' # fs => ext' # ext
\* C3: Collect returns an error exactly when the directory cannot be opened
\* or listed at the call; it has then deleted nothing and changed no field
\* (maxAge, interval, the ticker); a sweep that has begun returns nil.
C3_ErrorIffNoDir == [][C3_Step]_vars

\* Collect is returning an error on a running collector, and a file it
\* would have removed is still there
C3_Witness ==
    \E th \in Threads :
        /\ pc[th] = "ret" /\ rv[th] = "err"
        /\ ticker # 0 /\ tickers[ticker].active
        /\ \E n \in DOMAIN fs : ShouldGo(n, fs[n], now, maxAge)

\* Start on a running collector: no new ticker, no new goroutine, the
\* handle and every other field as before
C4_Step ==
    \A c \in Callers :
        StartStep(c) /\ ticker # 0 =>
            /\ rv'[c] = "already started"
            /\ UNCHANGED <<ticker, tickers, tk, maxAge, interval, fs>>
            /\ \A g \in Tasks : pc'[g] = pc[g]
\* at most one ticker is running, the one gc.ticker points to
C4_OneSchedule ==
    /\ Cardinality(ActiveTickers) <= 1
    /\ ticker # 0 => ActiveTickers = {ticker}
    /\ ticker = 0 => ActiveTickers = {}
\* C4: Start is idempotent: on a running collector it returns without side
\* effects, so Start;Start leaves exactly one running schedule.
C4_StartIdempotent == [](C4_OneSchedule) /\ [][C4_Step]_vars

\* a Start is returning from a collector that was already running
C4_Witness ==
    \E c \in Callers :
        /\ pc[c] = "ret" /\ rv[c] = "already started"
        /\ Cardinality(ActiveTickers) = 1
        /\ Cardinality(LiveTasks) = 1

\* C5, as claimed: at most one running ticker and at most one goroutine of
\* Start alive.
C5_AtMostOneLoop ==
    /\ Cardinality(ActiveTickers) <= 1
    /\ Cardinality(LiveTasks) <= 1

\* a goroutine receives from a stopped ticker at most while the Stop is
\* still on its way out
C6_Step ==
    \A g \in Tasks :
        (pc[g] = "wait" /\ pc'[g] = "call" /\ ~tickers[tk[g]].active) =>
            \E c \in Callers : pc[c] = "ret" /\ rv[c] = "stopped"
\* C6, as claimed: once Stop has returned, no tick is delivered to the
\* goroutine any more, so no new automatic sweep begins; only a sweep whose
\* tick was received before can still run.
C6_NoTickAfterStop == [][C6_Step]_vars

\* C7, as claimed: a goroutine whose ticker has been stopped eventually
\* leaves its range loop (line 102).
C7_TaskEnds ==
    \A g \in Tasks :
        (pc[g] = "wait" /\ ~tickers[tk[g]].active) ~> (pc[g] = "done")

\* Stop on a collector that is not running changes nothing
C8_Step ==
    \A c \in Callers :
        StopStep(c) /\ ticker = 0 =>
            /\ rv'[c] = "not started"
            /\ UNCHANGED <<ticker, tickers, tk, maxAge, interval, fs, dir>>
            /\ \A g \in Tasks : pc'[g] = pc[g]
\* no caller dereferences a nil ticker: a caller panics in time.NewTicker
\* only, which Stop does not call
C8_NoCrash == \A c \in Callers : pc[c] = "panic" => rv[c] = "NewTicker"
\* C8: Stop is idempotent: on a collector never started or already stopped
\* it changes no field, touches no ticker and does not crash.
C8_StopIdempotent == [](C8_NoCrash) /\ [][C8_Step]_vars

\* a second Stop is returning from a collector that an earlier Stop stopped
C8_Witness ==
    \E c \in Callers :
        /\ pc[c] = "ret" /\ rv[c] = "not started"
        /\ Len(tickers) > 0 /\ ActiveTickers = {}

\* C9: a goroutine sweeps only after its ticker has sent a tick, and a
\* running ticker has sent one only when a full interval has passed since
\* the Start that made it.
C9_NoSweepBeforeFirstTick ==
    /\ \A g \in Tasks : AutoSweeping(g) => tickers[tk[g]].fired
    /\ \A t \in DOMAIN tickers :
          ~tickers[t].fired => tickers[t].buf = 0
    /\ \A t \in ActiveTickers :
          tickers[t].fired => now >= tickers[t].created + tickers[t].period

\* a goroutine sweeps exactly one interval after its Start, while a ticker
\* stopped before its first tick has caused no sweep
C9_Witness ==
    \E g \in Tasks :
        /\ pc[g] = "loop"
        /\ tickers[tk[g]].active
        /\ snow[g] = tickers[tk[g]].created + tickers[tk[g]].period
        /\ \E t \in DOMAIN tickers : ~tickers[t].active /\ ~tickers[t].fired

\* at most one thread is inside a call, and it holds the lock
C10_OneInside ==
    /\ Cardinality({th \in Threads : pc[th] \in {"loop", "ret"}}) <= 1
    /\ \A th \in Threads : pc[th] \in {"loop", "ret"} => mu = th
\* while a sweep is in progress no other call begins, no field changes
C10_Step ==
    (\E th \in Threads : pc[th] = "loop") =>
        /\ UNCHANGED <<maxAge, interval, ticker, dir>>
        /\ ActiveTickers' = ActiveTickers
        /\ \A th \in Threads : pc[th] \in {"idle", "call"} => pc'[th] = pc[th]
\* C10: sweeps are mutually exclusive and atomic: never two sweeps (manual
\* or automatic) in progress at once, and no MaxAge, Interval, Start or Stop
\* takes effect between the beginning and the end of a sweep.
C10_SweepsExclusive == [](C10_OneInside) /\ [][C10_Step]_vars

\* a caller sweeps while a goroutine that has received its tick waits for
\* the lock
C10_Witness ==
    \E c \in Callers : \E g \in Tasks :
        pc[c] = "loop" /\ todo[c] # {} /\ pc[g] = "call"

\* the collector is running on a ticker whose next tick lies within the
\* time the model covers, and the expired file of TestGC is there
C11_Running ==
    /\ ticker # 0 /\ tickers[ticker].next <= MaxNow
    /\ "session_1" \in DOMAIN fs
\* the fresh file of TestGC is never removed
C11_FreshKept ==
    "session_2" \in DOMAIN fs /\ fs["session_2"] = TestDir["session_2"]
\* C11: a collector that is started and not stopped, with the timer
\* ticking, eventually sweeps on its own: the session file that was expired
\* at Start is removed although nobody calls Collect, and the fresh session
\* file next to it stays.
C11_AutoSweepHappens ==
    /\ [](C11_FreshKept)
    /\ C11_Running ~> ("session_1" \notin DOMAIN fs \/ ticker = 0)

\* the goroutine of a running collector has finished a sweep: session_1 is
\* gone, session_2 is there
C11_Witness ==
    \E g \in Tasks :
        /\ SweepEnded(g) /\ ticker # 0 /\ tk[g] = ticker
        /\ DOMAIN fs = {"session_2"}

\* the step is the call of Interval by caller c
IntervalStep(c) ==
    pc[c] = "idle" /\ pc'[c] = "ret" /\ rv'[c] = "Interval"
\* Interval touches no ticker; a running ticker keeps its period and its
\* origin; a ticker is made only for a stopped collector, with the
\* interval stored at that moment; the handle goes from one ticker to the
\* next only through nil; a Start that finds an interval that is not
\* positive stored panics in time.NewTicker and makes no ticker
C12_Step ==
    /\ \A c \in Callers :
          IntervalStep(c) => interval' \in {0, 1 * Hour, 2 * Hour}
                             /\ UNCHANGED <<ticker, tickers>>
    /\ \A t \in DOMAIN tickers :
          tickers[t].active /\ tickers'[t].active =>
              /\ tickers'[t].period = tickers[t].period
              /\ tickers'[t].created = tickers[t].created
    /\ \A t \in DOMAIN tickers' \ DOMAIN tickers :
          /\ ticker = 0 /\ ticker' = t
          /\ tickers'[t].active
          /\ tickers'[t].period = interval /\ tickers'[t].created = now
    /\ ticker' # ticker => ticker = 0 \/ ticker' = 0
    /\ \A c \in Callers :
          (pc[c] = "idle" /\ pc'[c] = "panic") =>
              interval <= 0 /\ ticker = 0 /\ UNCHANGED <<ticker, tickers>>
\* the ticks of a running ticker are due at whole periods after its Start
C12_Periodic ==
    \A t \in DOMAIN tickers :
        tickers[t].active =>
            /\ tickers[t].period > 0
            /\ tickers[t].next >= tickers[t].created + tickers[t].period
            /\ (tickers[t].next - tickers[t].created) % tickers[t].period = 0
\* C12: a running schedule ticks with the interval that was stored when its
\* Start ran; Interval on a running collector changes the stored interval
\* only, and the next Start after a Stop makes its schedule with the latest
\* interval.
C12_PeriodFixedAtStart == [](C12_Periodic) /\ [][C12_Step]_vars

\* a restarted collector ticks every 2 hours, the interval it found at its
\* second Start, although Interval has since stored 1 hour
C12_Witness ==
    /\ Len(tickers) = 2 /\ ticker = 2
    /\ tickers[2].active /\ tickers[2].fired
    /\ tickers[2].period = 2 * Hour
    /\ interval = 1 * Hour

\* a sweep in its loop stays there until every listed entry has been
\* visited and then returns nil; whatever failed before, the visit of an
\* eligible entry removes it where the directory allows
C13_Step ==
    \A th \in Threads :
        pc[th] = "loop" =>
            /\ pc'[th] \in {"loop", "ret"}
            /\ pc'[th] = "ret" => todo[th] = {} /\ rv'[th] = "nil"
            /\ todo'[th] \subseteq todo[th]
            /\ fis'[th] = fis[th] /\ snow'[th] = snow[th]
            /\ \A n \in todo[th] \ todo'[th] :
                  ShouldGo(n, fis[th][n], snow[th], maxAge) /\ dirState = "ok"
                      => n \notin DOMAIN fs'
\* the loop starts with every listed entry to visit
C13_ListedToVisit ==
    \A th \in Threads :
        (pc[th] \in {"idle", "call"} /\ pc'[th] = "loop") =>
            todo'[th] = DOMAIN fis'[th] /\ fis'[th] = fs
\* C13: a removal that fails (the entry is already gone, or the directory
\* refuses) does not end the sweep nor change its result: every remaining
\* listed entry is still visited, the eligible ones among them are removed,
\* and Collect returns nil.
C13_FailureIgnored == [][C13_Step /\ C13_ListedToVisit]_vars

\* a sweep is returning nil after a removal that was refused (the eligible
\* entry is there as it was listed) and a later one that succeeded
C13_Witness ==
    \E th \in Threads :
        /\ SweepEnded(th) /\ disturbed /\ dirState = "ok"
        /\ \E n1, n2 \in DOMAIN fis[th] :
              /\ n1 # n2
              /\ ShouldGo(n1, fis[th][n1], snow[th], maxAge)
              /\ ShouldGo(n2, fis[th][n2], snow[th], maxAge)
              /\ n1 \in DOMAIN fs /\ fs[n1] = fis[th][n1]
              /\ n2 \notin DOMAIN fs

\* the Collect of goroutine g has failed and g is about to return from it
AutoFailed(g) == pc[g] = "ret" /\ rv[g] = "err"
\* the next tick of the ticker of goroutine g lies within the time the
\* model covers
TickAhead(g) == IF tk[g] = 0 THEN FALSE ELSE tickers[tk[g]].next <= MaxNow
\* a failing automatic sweep changes neither the handle nor any ticker, and
\* the goroutine returns from it to the same channel; a tick's Collect
\* fails only on a directory that cannot be opened or listed
C14_Step ==
    \A g \in Tasks :
        /\ (pc[g] = "call" /\ pc'[g] = "ret") =>
               /\ rv'[g] = "err" /\ dirState \in {"noopen", "nolist"}
               /\ UNCHANGED <<ticker, tickers, tk>>
        /\ (pc[g] = "call" /\ dirState \notin {"noopen", "nolist"}) =>
               pc'[g] \in {"call", "loop"}
        /\ (AutoFailed(g) /\ pc'[g] # "ret") =>
               /\ pc'[g] = "wait"
               /\ UNCHANGED <<ticker, tk>>
               /\ ActiveTickers' = ActiveTickers
\* a tick leaves the channel only into a goroutine, which then calls Collect
C14_TickCalls ==
    \A t \in DOMAIN tickers :
        tickers'[t].buf < tickers[t].buf =>
            \E g \in Tasks : tk[g] = t /\ pc[g] = "wait" /\ pc'[g] = "call"
\* after a failed automatic sweep the next tick of the running ticker
\* brings the goroutine to gc.Collect() again
C14_NextTickSweeps ==
    \A g \in Tasks :
        (AutoFailed(g) /\ TickAhead(g)) ~> (pc[g] = "call")
\* C14: the error of an automatic sweep is dropped and the loop goes on:
\* the goroutine stays alive on its ticker, the collector stays running,
\* later ticks call Collect again, and Collect sweeps once the directory
\* can be opened and listed.
C14_ErrorDiscarded ==
    [][C14_Step /\ C14_TickCalls]_vars /\ C14_NextTickSweeps

\* a goroutine sweeps a directory that is accessible again, at the second
\* tick of a running ticker, and finds the expired file still to remove
C14_Witness ==
    \E g \in Tasks :
        /\ pc[g] = "loop" /\ dirState = "ok" /\ ext > 0
        /\ tk[g] = ticker /\ tickers[ticker].active
        /\ snow[g] >= tickers[ticker].created + 2 * tickers[ticker].period
        /\ "session_1" \in DOMAIN fis[g]

\* the step is the call of MaxAge by caller c
MaxAgeStep(c) ==
    pc[c] = "idle" /\ pc'[c] = "ret" /\ rv'[c] = "MaxAge"
\* a sweep takes its now once, when it begins; while it is in its loop its
\* now and gc.maxAge stay as they are, whatever the clock does, and each
\* entry it visits goes or stays by that now and that maxAge; gc.maxAge is
\* written by MaxAge alone, outside any sweep
C15_Step ==
    /\ \A th \in Threads :
          /\ (pc[th] \in {"idle", "call"} /\ pc'[th] = "loop") =>
                 snow'[th] = now /\ maxAge' = maxAge
          /\ pc[th] = "loop" =>
                 /\ snow'[th] = snow[th] /\ maxAge' = maxAge
                 /\ \A n \in todo[th] \ todo'[th] :
                       IF ShouldGo(n, fis[th][n], snow[th], maxAge)
                       THEN n \notin DOMAIN fs'
                       ELSE fs' = fs
    /\ maxAge' # maxAge =>
          /\ \E c \in Callers : MaxAgeStep(c)
          /\ \A th \in Threads : pc[th] # "loop" /\ ~SweepEnded(th)
\* C15: a sweep judges every entry by one now, taken once before the loop,
\* and by one maxAge, the one the last MaxAge call before the sweep has
\* set; neither changes between two entries of the same sweep.
C15_OneSnapshot == [][C15_Step]_vars

\* an automatic sweep that began at hour 1 with maxAge of one hour has kept
\* session_2, written at hour 0, although the clock has since reached hour 2
C15_Witness ==
    \E g \in Tasks :
        /\ pc[g] = "loop" /\ snow[g] = 1 /\ now = 2 /\ maxAge = Hour
        /\ "session_2" \in DOMAIN fis[g] \ todo[g]
        /\ "session_2" \in DOMAIN fs
        /\ now - fs["session_2"].modTime > maxAge

\* the step in which thread th reads or writes a field of GC: a call of
\* MaxAge, Interval, Start, Stop or Collect taking effect, an entry of the
\* sweep being judged by gc.maxAge, or a goroutine evaluating gc.ticker
FieldAccess(th) ==
    \/ pc[th] \in {"idle", "call"} /\ pc'[th] \in {"ret", "loop"}
    \/ pc[th] = "loop" /\ todo'[th] # todo[th]
    \/ pc[th] = "go" /\ pc'[th] # "go"
\* C16, as claimed: every read and write of maxAge, interval and ticker, by
\* a caller or by a goroutine of Start, is made by a thread that holds
\* gc.mu at that moment.
C16_FieldsUnderLock ==
    [][\A th \in Threads : FieldAccess(th) => mu' = th]_vars

\* the step in which the runtime's timer of running ticker t fires
TickStep(t) ==
    /\ tickers[t].active /\ tickers'[t].active
    /\ tickers'[t].next > tickers[t].next
\* the ticks running ticker t has fired since its Start
TicksFired(t) ==
    (tickers[t].next - tickers[t].created) \div tickers[t].period - 1
\* the goroutines that range over ticker t
TasksOn(t) == {g \in Tasks : tk[g] = t}
\* the automatic sweeps that are due on ticker t and have not begun: the
\* ticks in its channel and the goroutines waiting for the lock
PendingSweeps(t) ==
    tickers[t].buf + Cardinality({g \in TasksOn(t) : pc[g] = "call"})

\* C17, as claimed: every tick a running ticker fires, also while an
\* automatic sweep is in progress, adds one automatic sweep to those that
\* wait: none is skipped, the backlog grows with the ticks fired.
C17_EveryTickQueued ==
    [][\A t \in DOMAIN tickers :
          TickStep(t) /\ (\E g \in TasksOn(t) : pc[g] = "loop") =>
              tickers'[t].buf = tickers[t].buf + 1]_vars

\* the channel of a ticker holds at most one tick, and next to it each
\* goroutine of the ticker accounts for at most one sweep that waits
C17_AtMostOnePending ==
    \A t \in DOMAIN tickers :
        /\ tickers[t].buf \in {0, 1}
        /\ PendingSweeps(t) <= 1 + Cardinality(TasksOn(t))
\* a tick that fires leaves one tick in the channel, whether or not one
\* was there; a tick that leaves the channel sends one goroutine to
\* gc.Collect(), which begins when the lock is free
C17_Step ==
    /\ \A t \in DOMAIN tickers :
          /\ TickStep(t) => tickers'[t].buf = 1
          /\ tickers'[t].buf < tickers[t].buf =>
                Cardinality({g \in TasksOn(t) :
                                pc[g] = "wait" /\ pc'[g] = "call"}) = 1
    /\ \A g \in Tasks :
          (pc[g] = "call" /\ pc'[g] # "call") =>
              mu = NoThread /\ mu' = g /\ pc'[g] \in {"loop", "ret"}
\* C17, amended: ticks are not queued: a tick that fires while the channel
\* still holds one is dropped, every tick a goroutine receives results in
\* one automatic sweep that waits its turn for the lock, and the sweeps
\* that wait do not grow with the ticks fired.
C17_TicksCoalesced == [](C17_AtMostOnePending) /\ [][C17_Step]_vars

\* an automatic sweep that began at the first tick is still in its loop
\* after two more ticks have fired, and one tick is in the channel
C17_Witness ==
    \E g \in Tasks :
        /\ pc[g] = "loop" /\ snow[g] = 0 /\ tk[g] = 1
        /\ tickers[1].active /\ TicksFired(1) = 3
        /\ PendingSweeps(1) = 1

\* gc.ticker is set exactly while a ticker runs, which is then the one it
\* points to; gc.dir is the path given to New
C18_HandleIffRunning ==
    /\ ticker = 0 <=> \A t \in DOMAIN tickers : ~tickers[t].active
    /\ ticker # 0 => ticker \in DOMAIN tickers /\ tickers[ticker].active
    /\ dir = "/path/to/sessions/"
\* a Start that returns leaves the handle set (one that panics in
\* time.NewTicker leaves it nil) and a Stop leaves it nil; the handle
\* changes only in a Start that finds it nil and in a Stop that finds it
\* set, so MaxAge, Interval and Collect, of callers or goroutines, leave
\* it as it is; no ticker starts or stops running in any other step
C18_Step ==
    /\ \A c \in Callers :
          /\ StartStep(c) => ticker' # 0
          /\ StopStep(c) => ticker' = 0
          /\ (pc[c] = "idle" /\ pc'[c] = "panic") => ticker' = 0
    /\ ticker' # ticker =>
          \E c \in Callers :
              \/ StartStep(c) /\ rv'[c] = "started" /\ ticker = 0
              \/ StopStep(c) /\ rv'[c] = "stopped" /\ ticker' = 0
    /\ {t \in DOMAIN tickers' : tickers'[t].active}
           # {t \in DOMAIN tickers : tickers[t].active}
          => ticker' # ticker
    /\ dir' = dir
\* C18: the schedule handle is there exactly when the collector runs: nil
\* after New, set after a Start, nil after a Stop, and left alone by
\* MaxAge, Interval and Collect (manual or automatic, succeeding or
\* failing); the directory path never changes.
C18_HandleFrame ==
    ticker = 0 /\ [](C18_HandleIffRunning) /\ [][C18_Step]_vars

\* the automatic sweep of a restarted collector is returning an error, and
\* the handle is the running ticker of the second Start
C18_Witness ==
    \E g \in Tasks :
        /\ pc[g] = "ret" /\ rv[g] = "err"
        /\ Len(tickers) = 2 /\ ticker = 2 /\ tickers[2].active
        /\ ~tickers[1].active

\* C19, as claimed: the goroutine of the k-th Start never finds gc.ticker
\* nil when it first evaluates gc.ticker.C, and the channel it ranges over
\* is the one of the ticker that the k-th Start made.
C19_TaskOnOwnTicker ==
    \A k \in 1..MaxStarts :
        /\ pc[Task(k)] # "panic"
        /\ tk[Task(k)] # 0 => tk[Task(k)] = k

\* C20, as claimed: whoever holds gc.mu gives it back, on every return path
\* of every method, so that no call holds the lock for ever and every call
\* returns, a sweep included once its entries are done.
C20_EveryCallReturns ==
    \A th \in Threads : (mu = th) ~> (mu # th)

====
